---- MODULE Spec2Model ----
(***************************************************************************)
(* A model of tessara's parameter engine: Param, ParameterSet, ParamGrid   *)
(* (core/parameters.py) and ParamComposer, ParamSweeper                    *)
(* (handling/param_interface.py).                                          *)
(*                                                                         *)
(* Python objects live in a heap (object id -> object), so that sharing    *)
(* one Param between two sets is visible.  Every method is an operator     *)
(* from a heap to a record [heap, err, ret]: err is "ok" or the name of    *)
(* the exception the method raises.                                        *)
(***************************************************************************)
EXTENDS Integers, Sequences, FiniteSets, TLC

VARIABLES
    heap,        \* object id -> object (the allocated objects only)
    params,      \* ParamComposer.params: dict set name -> ParameterSet id
    precedence,  \* ParamComposer.precedence: list of set names
    res,         \* what the last call returned: a list of Python values
    last,        \* the last call: its name, arguments, outcome, heap before
    validator    \* the client's Validator: params, strict, recorder, checks

vars == <<heap, params, precedence, res, last, validator>>

-----------------------------------------------------------------------------
(* Bounds and input domains *)

MaxObj == 40      \* heap capacity (object ids 1..MaxObj)
MaxRules == 1     \* rules registered on one Param by the driver
MaxRel == 1       \* relation rules registered on one set by the driver
MaxSweep == 3     \* sweep values of one ParamGrid
MaxPrec == 3      \* length of a precedence list handed to set_precedence
MaxReport == 1    \* report entries a client records by hand

Ids == 1..MaxObj
Names == {"x", "y"}          \* parameter names
Values == {1, 2}             \* bare values
Rules == {"r1"}              \* SingleValueRule instances
RelRules == {"q1", "q2"}     \* MultiValueRule instances
SetNames == <<"A", "B">>     \* names of the composer's sets, construction order

-----------------------------------------------------------------------------
(* Python values and objects *)

None == [t |-> "none", v |-> 0]
IntV(n) == [t |-> "int", v |-> n]
Ref(i) == [t |-> "ref", v |-> i]

IsRef(pv) == pv.t = "ref"

\* One record shape for every object; a class uses the fields it declares.
Blank ==
    [kind |-> "none", default |-> None, value |-> None, rules |-> <<>>,
     data |-> <<>>, relation_rules |-> <<>>, param |-> 0, sweep_values |-> <<>>]

\* Param.__init__ with rules=None: value None, the default, no rules.
NewParam(default) == [Blank EXCEPT !.kind = "Param", !.default = default]

\* ParameterSet.__init__ before any candidate is added.
NewParameterSet == [Blank EXCEPT !.kind = "ParameterSet"]

\* ParamGrid.__init__: the template Param and the sweep values.
NewParamGrid(p, sv) ==
    [Blank EXCEPT !.kind = "ParamGrid", !.param = p, !.sweep_values = sv]

\* Targets of a relation rule: a list of names, or a dict name -> formal.
ListTargets(names) == [mode |-> "list", names |-> names, formals |-> <<>>]
DictTargets(names, formals) == [mode |-> "dict", names |-> names, formals |-> formals]

-----------------------------------------------------------------------------
(* Insertion-ordered dict: a sequence of [k, v] without repeated k *)

Range(s) == {s[i] : i \in 1..Len(s)}
Keys(d) == [i \in 1..Len(d) |-> d[i].k]
HasKey(d, k) == \E i \in 1..Len(d) : d[i].k = k
Get(d, k) == d[CHOOSE i \in 1..Len(d) : d[i].k = k].v
Put(d, k, v) ==
    IF HasKey(d, k)
    THEN [i \in 1..Len(d) |-> IF d[i].k = k THEN [k |-> k, v |-> v] ELSE d[i]]
    ELSE Append(d, [k |-> k, v |-> v])
Pop(d, k) == SelectSeq(d, LAMBDA e : e.k # k)

-----------------------------------------------------------------------------
(* Heap: allocation, reachability, deepcopy *)

Allocated(h) == DOMAIN h
FreeIds(h) == Ids \ DOMAIN h
Min(S) == CHOOSE x \in S : \A y \in S : x <= y
NthSmallest(S, n) == CHOOSE x \in S : Cardinality({y \in S : y <= x}) = n

\* A new object at the smallest free id.
Alloc(h, obj) ==
    LET i == Min(FreeIds(h))
    IN  [heap |-> [j \in DOMAIN h \cup {i} |-> IF j = i THEN obj ELSE h[j]],
         id |-> i]

ValRefs(pv) == IF IsRef(pv) THEN {pv.v} ELSE {}

\* The objects an object refers to.
ObjRefs(o) ==
    ValRefs(o.default) \cup ValRefs(o.value)
      \cup {o.data[i].v : i \in 1..Len(o.data)}
      \cup (IF o.kind = "ParamGrid" THEN {o.param} ELSE {})
      \cup UNION {ValRefs(o.sweep_values[i]) : i \in 1..Len(o.sweep_values)}

RECURSIVE Reach(_, _)
Reach(h, S) ==
    LET T == S \cup UNION {ObjRefs(h[i]) : i \in S}
    IN  IF T = S THEN S ELSE Reach(h, T)

RenameVal(pv, m) == IF IsRef(pv) THEN Ref(m[pv.v]) ELSE pv

Rename(o, m) ==
    [o EXCEPT
        !.default = RenameVal(o.default, m),
        !.value = RenameVal(o.value, m),
        !.data = [i \in 1..Len(o.data) |-> [k |-> o.data[i].k, v |-> m[o.data[i].v]]],
        !.param = IF o.kind = "ParamGrid" THEN m[o.param] ELSE o.param,
        !.sweep_values = [i \in 1..Len(o.sweep_values) |-> RenameVal(o.sweep_values[i], m)]]

\* copy.deepcopy(obj).  The copy of a ParameterSet is rebuilt from an empty
\* instance (cls.__new__, no __init__), on which deepcopy probes
\* hasattr(y, '__setstate__'); the probe falls to ParameterSet.__getattr__,
\* which reads obj.data, an attribute the empty instance lacks, and so
\* re-enters __getattr__ without end: RecursionError, which the method's
\* "except AttributeError" does not catch.  So deepcopy raises as soon as a
\* ParameterSet is among the objects to copy.  Otherwise every object
\* reachable from obj is copied once (the memo keeps sharing inside the copy),
\* rule instances and bare values by content.
deepcopy(h, id) ==
    LET R == Reach(h, {id})
        F == FreeIds(h)
        m == [i \in R |-> NthSmallest(F, Cardinality({j \in R : j <= i}))]
        New == {m[i] : i \in R}
        inv == [n \in New |-> CHOOSE i \in R : m[i] = n]
    IN  IF \E i \in R : h[i].kind = "ParameterSet"
        THEN [heap |-> h, err |-> "RecursionError", id |-> 0]
        ELSE [heap |-> [j \in DOMAIN h \cup New |->
                          IF j \in New THEN Rename(h[inv[j]], m) ELSE h[j]],
              err |-> "ok", id |-> m[id]]

\* Reference counting: objects no live reference reaches are freed.
Collect(h, roots) == [i \in Reach(h, roots) |-> h[i]]

\* The content of an object with every reference followed: two objects with
\* equal Content are equal in names, order, defaults, values, rules and
\* relation rules, whatever their ids.
RECURSIVE Content(_, _)
ContentVal(h, pv) == IF IsRef(pv) THEN <<"obj", Content(h, pv.v)>> ELSE <<"val", pv>>
Content(h, id) ==
    LET o == h[id]
    IN  [kind |-> o.kind,
         default |-> ContentVal(h, o.default),
         value |-> ContentVal(h, o.value),
         rules |-> o.rules,
         data |-> [i \in 1..Len(o.data) |->
                     <<o.data[i].k, Content(h, o.data[i].v)>>],
         relation_rules |-> o.relation_rules,
         param |-> IF o.kind = "ParamGrid" THEN <<Content(h, o.param)>> ELSE <<>>,
         sweep_values |-> o.sweep_values]

-----------------------------------------------------------------------------
(* Param *)

Ok(h) == [heap |-> h, err |-> "ok", ret |-> <<>>]
Raise(h, e) == [heap |-> h, err |-> e, ret |-> <<>>]
Return(h, r) == [heap |-> h, err |-> "ok", ret |-> r]

\* Param.set: stores the value; the method returns None.
Param_set(h, pid, pv) == Return([h EXCEPT ![pid].value = pv], <<None>>)

\* Param.get: returns self.value.
Param_get(h, pid) == h[pid].value

\* Param.register_rule with a SingleValueRule: appended to the rules.
Param_register_rule(h, pid, rule) ==
    Ok([h EXCEPT ![pid].rules = Append(@, rule)])

\* Param.copy: a deep copy.
Param_copy(h, pid) == deepcopy(h, pid)

-----------------------------------------------------------------------------
(* ParameterSet *)

\* (mutant of ParameterSet_add) the presence check is lost: the entry is replaced.
ParameterSet_add_unchecked(h, sid, name, pv) ==
    IF IsRef(pv) /\ h[pv.v].kind = "Param"
    THEN Ok([h EXCEPT ![sid].data = Put(@, name, pv.v)])
    ELSE LET a == Alloc(h, NewParam(pv))
         IN  Ok([a.heap EXCEPT ![sid].data = Put(@, name, a.id)])

\* ParameterSet.add: a present name raises; a Param is stored as it is, any
\* other value (a bare value, a ParamGrid, a ParameterSet) becomes the default
\* of a new Param.
ParameterSet_add(h, sid, name, pv) ==
    IF HasKey(h[sid].data, name)
    THEN Raise(h, "OverrideParameterError")
    ELSE IF IsRef(pv) /\ h[pv.v].kind = "Param"
    THEN Ok([h EXCEPT ![sid].data = Put(@, name, pv.v)])
    ELSE LET a == Alloc(h, NewParam(pv))
         IN  Ok([a.heap EXCEPT ![sid].data = Put(@, name, a.id)])

\* ParameterSet.remove: data.pop(name, None).
ParameterSet_remove(h, sid, name) == Ok([h EXCEPT ![sid].data = Pop(@, name)])

\* ParameterSet.__setitem__ delegates to add.
ParameterSet_setitem(h, sid, name, pv) == ParameterSet_add(h, sid, name, pv)

\* ParamGrid.register_rule delegates to the template Param.
ParamGrid_register_rule(h, gid, rule) == Param_register_rule(h, h[gid].param, rule)

\* ParameterSet.register_rule: self.data[target].register_rule(rule), on the
\* Param or ParamGrid stored under the name.
ParameterSet_register_rule(h, sid, target, rule) ==
    IF HasKey(h[sid].data, target)
    THEN IF h[Get(h[sid].data, target)].kind = "ParamGrid"
         THEN ParamGrid_register_rule(h, Get(h[sid].data, target), rule)
         ELSE Param_register_rule(h, Get(h[sid].data, target), rule)
    ELSE Raise(h, "UnknownParameterError")

\* UserDict.__ior__ (params |= {name: obj}): the inherited in-place update
\* writes self.data without going through add.
UserDict_ior(h, sid, name, id) == Ok([h EXCEPT ![sid].data = Put(@, name, id)])

\* (mutant of ParameterSet_register_relation_rule) the rule is appended
\* before the targets are looked up, so a refused rule stays in the list.
ParameterSet_register_relation_rule_append_first(h, sid, rule, targets) ==
    IF \E i \in 1..Len(targets.names) : ~HasKey(h[sid].data, targets.names[i])
    THEN Raise([h EXCEPT ![sid].relation_rules =
                    Append(@, [rule |-> rule, targets |-> targets])],
               "UnknownParameterError")
    ELSE Ok([h EXCEPT ![sid].relation_rules =
                 Append(@, [rule |-> rule, targets |-> targets])])

\* ParameterSet.register_relation_rule with a MultiValueRule.
ParameterSet_register_relation_rule(h, sid, rule, targets) ==
    IF \E i \in 1..Len(targets.names) : ~HasKey(h[sid].data, targets.names[i])
    THEN Raise(h, "UnknownParameterError")
    ELSE Ok([h EXCEPT ![sid].relation_rules =
                 Append(@, [rule |-> rule, targets |-> targets])])

\* ParameterSet.copy: a deep copy.
ParameterSet_copy(h, sid) == deepcopy(h, sid)

\* ParameterSet.__init__(candidates, relation_rules=...): every candidate is
\* added, then every relation rule registered; the first failure is raised.
RECURSIVE AddAll(_, _, _)
AddAll(r, sid, cands) ==
    IF cands = <<>> \/ r.err # "ok" THEN r
    ELSE AddAll(ParameterSet_add(r.heap, sid, Head(cands).k, Head(cands).v),
                sid, Tail(cands))

RECURSIVE RegisterAll(_, _, _)
RegisterAll(r, sid, rels) ==
    IF rels = <<>> \/ r.err # "ok" THEN r
    ELSE RegisterAll(ParameterSet_register_relation_rule(
                         r.heap, sid, Head(rels).rule, Head(rels).targets),
                     sid, Tail(rels))

ParameterSet_init(h, cands, rels) ==
    LET a == Alloc(h, NewParameterSet)
        r == RegisterAll(AddAll(Ok(a.heap), a.id, cands), a.id, rels)
    IN  [heap |-> r.heap, err |-> r.err, ret |-> <<Ref(a.id)>>]

-----------------------------------------------------------------------------
(* ParamComposer *)

\* (mutant of ParamComposer_set_precedence) the list is stored before the
\* coverage check, so a refused list still replaces the order.
ParamComposer_set_precedence_store_first(ps, prec, p) ==
    IF \E i \in 1..Len(ps) : ps[i].k \notin Range(p)
    THEN [precedence |-> p, err |-> "ValueError"]
    ELSE [precedence |-> p, err |-> "ok"]

\* ParamComposer.set_precedence: a list that misses a set name raises
\* ValueError before the assignment.
ParamComposer_set_precedence(ps, prec, p) ==
    IF \E i \in 1..Len(ps) : ps[i].k \notin Range(p)
    THEN [precedence |-> prec, err |-> "ValueError"]
    ELSE [precedence |-> p, err |-> "ok"]

\* The loop of merge over other.data: a name is assigned when it is absent
\* from merged, or unconditionally under override.
MergeData(md, od, override) ==
    LET F[i \in 0..Len(od)] ==
            IF i = 0 THEN md
            ELSE IF ~HasKey(F[i - 1], od[i].k) \/ override
                 THEN Put(F[i - 1], od[i].k, od[i].v)
                 ELSE F[i - 1]
    IN  F[Len(od)]

\* ParamComposer.merge: a deep copy of original, to which other's Param
\* objects are assigned and other's relation rules appended.  The copy is the
\* first statement: when it raises, merge raises.
ParamComposer_merge(h, original, other, override) ==
    LET c == ParameterSet_copy(h, original)
        merged == c.id
    IN  IF c.err # "ok" THEN Raise(h, c.err)
        ELSE Return([c.heap EXCEPT
                        ![merged].data = MergeData(@, h[other].data, override),
                        ![merged].relation_rules = @ \o h[other].relation_rules],
                    <<Ref(merged)>>)

\* ParamComposer.compose: merge with override=True along the precedence,
\* from an empty set; a name that is no key of params raises KeyError.
RECURSIVE ComposeFrom(_, _, _, _)
ComposeFrom(h, ps, prec, composed) ==
    IF prec = <<>> THEN Return(h, <<Ref(composed)>>)
    ELSE IF ~HasKey(ps, Head(prec)) THEN Raise(h, "KeyError")
    ELSE LET m == ParamComposer_merge(h, composed, Get(ps, Head(prec)), TRUE)
         IN  IF m.err # "ok" THEN Raise(h, m.err)
             ELSE ComposeFrom(m.heap, ps, Tail(prec), m.ret[1].v)

ParamComposer_compose(h, ps, prec) ==
    LET a == Alloc(h, NewParameterSet)
    IN  ComposeFrom(a.heap, ps, prec, a.id)

-----------------------------------------------------------------------------
(* ParamGrid and ParamSweeper *)

\* ParamGrid.generate_params: [self.param.copy().set(value) for value in
\* self.sweep_values]: each element is what Param.set returns.
RECURSIVE GenParams(_, _, _, _)
\* The element appended for sweep_values[i]: what set returned on the copy c.
GenParamsSet(h, gid, i, acc, s) ==
    GenParams(s.heap, gid, i + 1, Append(acc, s.ret[1]))

GenParamsCopy(h, gid, i, acc, c) ==
    IF c.err # "ok" THEN Raise(h, c.err)
    ELSE GenParamsSet(h, gid, i, acc, Param_set(c.heap, c.id, h[gid].sweep_values[i]))

GenParams(h, gid, i, acc) ==
    IF i > Len(h[gid].sweep_values) THEN Return(h, acc)
    ELSE GenParamsCopy(h, gid, i, acc, Param_copy(h, h[gid].param))

ParamGrid_generate_params(h, gid) == GenParams(h, gid, 1, <<>>)

RECURSIVE Flatten(_)
Flatten(ss) == IF ss = <<>> THEN <<>> ELSE Head(ss) \o Flatten(Tail(ss))

\* itertools.product(*lists): the tuples in lexicographic order, the last
\* list varying fastest; no tuple when a list is empty.
RECURSIVE Product(_)
Product(lists) ==
    IF lists = <<>> THEN << <<>> >>
    ELSE LET rest == Product(Tail(lists))
         IN  Flatten([i \in 1..Len(Head(lists)) |->
                        [j \in 1..Len(rest) |-> <<Head(lists)[i]>> \o rest[j]]])

\* The names of the entries of a set that are ParamGrid objects, in order.
SweepNames(h, sid) ==
    Keys(SelectSeq(h[sid].data, LAMBDA e : h[e.v].kind = "ParamGrid"))

\* sweep_params: generate_params of every ParamGrid entry, in order.
RECURSIVE SweepParams(_, _, _, _, _)
SweepParamsOf(h, sid, names, i, acc, g) ==
    IF g.err # "ok" THEN Raise(h, g.err)
    ELSE SweepParams(g.heap, sid, names, i + 1, Append(acc, g.ret))

SweepParams(h, sid, names, i, acc) ==
    IF i > Len(names) THEN Return(h, acc)
    ELSE SweepParamsOf(h, sid, names, i, acc,
                       ParamGrid_generate_params(h, Get(h[sid].data, names[i])))

\* for k, p in zip(names, combination): new_set[k] = p.
RECURSIVE Replace(_, _, _, _, _)
ReplaceOne(h, new, names, combination, j, r) ==
    IF r.err # "ok" THEN Raise(h, r.err)
    ELSE Replace(r.heap, new, names, combination, j + 1)

Replace(h, new, names, combination, j) ==
    IF j > Len(names) THEN Ok(h)
    ELSE ReplaceOne(h, new, names, combination, j,
                    ParameterSet_setitem(h, new, names[j], combination[j]))

\* for combination in product(*params): copy, replace, append.
RECURSIVE GridLoop(_, _, _, _, _, _)
GridLoopAppend(h, sid, names, combos, i, grid, new, r) ==
    IF r.err # "ok" THEN Raise(h, r.err)
    ELSE GridLoop(r.heap, sid, names, combos, i + 1, Append(grid, Ref(new)))

GridLoopCopy(h, sid, names, combos, i, grid, c) ==
    IF c.err # "ok" THEN Raise(h, c.err)
    ELSE GridLoopAppend(h, sid, names, combos, i, grid, c.id,
                        Replace(c.heap, c.id, names, combos[i], 1))

GridLoop(h, sid, names, combos, i, grid) ==
    IF i > Len(combos) THEN Return(h, grid)
    ELSE GridLoopCopy(h, sid, names, combos, i, grid, ParameterSet_copy(h, sid))

\* if not sweep_params: return [self.copy()].
SingleCopy(h, c) ==
    IF c.err # "ok" THEN Raise(h, c.err) ELSE Return(c.heap, <<Ref(c.id)>>)

GridFrom(h, sid, names, sp) ==
    IF sp.err # "ok" THEN Raise(h, sp.err)
    ELSE IF names = <<>> THEN SingleCopy(h, ParameterSet_copy(sp.heap, sid))
    ELSE GridLoop(sp.heap, sid, names, Product(sp.ret), 1, <<>>)

\* ParamSweeper.generate_sweep_grid, called on a ParameterSet.
ParamSweeper_generate_sweep_grid(h, sid) ==
    GridFrom(h, sid, SweepNames(h, sid),
             SweepParams(h, sid, SweepNames(h, sid), 1, <<>>))

-----------------------------------------------------------------------------
(* The driver: a client holding the composer's two sets A and B *)

IdOf(setname) == Get(params, setname)
A == IdOf("A")
B == IdOf("B")

\* The objects the client still refers to: the composer's sets and the last
\* result.
Live(r) == {params[i].v : i \in 1..Len(params)}
             \cup UNION {ValRefs(r[i]) : i \in 1..Len(r)}

NoCall == [op |-> "none", args |-> <<>>, err |-> "ok", pre |-> <<>>, preprec |-> <<>>]

\* No Validator has been constructed.
NoValidator == [params |-> 0, strict |-> FALSE,
                recorder |-> [report |-> <<>>, errors |-> <<>>], checks |-> <<>>]

\* A call returns: the heap after it (garbage freed), what it returned, and
\* the record of the call.
Called(op, args, r, kept) ==
    /\ heap' = Collect(r.heap, Live(kept))
    /\ res' = kept
    /\ last' = [op |-> op, args |-> args, err |-> r.err, pre |-> heap,
                preprec |-> precedence]

\* A call whose result the client keeps.
CalledRet(op, args, r) == Called(op, args, r, r.ret)

\* ParamComposer.__init__(A=a, B=b): params in keyword order, and the
\* default precedence list(self.params.keys()).
ParamComposer_init(a, b) ==
    LET ps == <<[k |-> SetNames[1], v |-> a], [k |-> SetNames[2], v |-> b]>>
    IN  [params |-> ps, precedence |-> Keys(ps)]

\* The dicts of bare values a set is constructed from: at most one entry
\* (Candidates(1)) or any entries over Names (Candidates(2)).
Candidates(n) ==
    {c \in UNION {[1..m -> [k : Names, v : {IntV(v) : v \in Values}]] : m \in 0..n} :
        \A i, j \in 1..Len(c) : c[i].k = c[j].k => i = j}

\* The relation rules a set is constructed with: up to MaxRel rules, each
\* over the names of the set in order.
RelationRules(c) ==
    IF c = <<>> THEN {<<>>}
    ELSE UNION {[1..m -> {[rule |-> q, targets |-> ListTargets(Keys(c))] : q \in RelRules}] :
                   m \in 0..MaxRel}

\* s = ParameterSet(candidates, relation_rules=rels), then optionally
\* s.register_rule(first name, "r1").
BuildSet(h, c, rels, withRule) ==
    LET s == ParameterSet_init(h, c, rels)
    IN  IF withRule
        THEN [heap |-> ParameterSet_register_rule(s.heap, s.ret[1].v, c[1].k, "r1").heap,
              id |-> s.ret[1].v]
        ELSE [heap |-> s.heap, id |-> s.ret[1].v]

Start(h, a, b) ==
    /\ heap = h
    /\ params = ParamComposer_init(a, b).params
    /\ precedence = ParamComposer_init(a, b).precedence
    /\ res = <<>>
    /\ last = NoCall
    /\ validator = NoValidator

-----------------------------------------------------------------------------
(* SpecSet: the operations of one ParameterSet, A *)

InitSet ==
    LET a == BuildSet(<<>>, <<>>, <<>>, FALSE)
        b == BuildSet(a.heap, <<>>, <<>>, FALSE)
    IN  Start(b.heap, a.id, b.id)

\* A.add(name, v) with a bare value, or A.add(name, Param(default=v)).
Add(name, kind, v) ==
    LET a == Alloc(heap, NewParam(IntV(v)))
        r == IF kind = "Param"
             THEN ParameterSet_add(a.heap, A, name, Ref(a.id))
             ELSE ParameterSet_add(heap, A, name, IntV(v))
    IN  /\ Called("add", [sid |-> A, name |-> name, kind |-> kind, v |-> v], r, <<>>)
        /\ UNCHANGED <<params, precedence, validator>>

\* A.remove(name).
Remove(name) ==
    /\ Called("remove", [sid |-> A, name |-> name],
              ParameterSet_remove(heap, A, name), <<>>)
    /\ UNCHANGED <<params, precedence, validator>>

\* A[name].set(v).
SetValue(name, v) ==
    /\ HasKey(heap[A].data, name)
    /\ Called("set", [sid |-> A, name |-> name, v |-> v],
              Param_set(heap, Get(heap[A].data, name), IntV(v)), <<>>)
    /\ UNCHANGED <<params, precedence, validator>>

\* A.register_rule(name, rule).
RegisterRule(name, rule) ==
    /\ HasKey(heap[A].data, name) => Len(heap[Get(heap[A].data, name)].rules) < MaxRules
    /\ Called("register_rule", [sid |-> A, name |-> name, rule |-> rule],
              ParameterSet_register_rule(heap, A, name, rule), <<>>)
    /\ UNCHANGED <<params, precedence, validator>>

\* The target specifications the driver uses: one name, both names in
\* order, or a mapping of one name to the formal "a".
TargetSpecs ==
    {ListTargets(<<"x">>), ListTargets(<<"x", "y">>), DictTargets(<<"y">>, <<"a">>)}

\* A.register_relation_rule(rule, targets).
RegisterRelationRule(rule, targets) ==
    /\ Len(heap[A].relation_rules) < MaxRel
    /\ Called("register_relation_rule", [sid |-> A, rule |-> rule, targets |-> targets],
              ParameterSet_register_relation_rule(heap, A, rule, targets), <<>>)
    /\ UNCHANGED <<params, precedence, validator>>

NextSet ==
    \/ \E name \in Names, kind \in {"bare", "Param"}, v \in Values : Add(name, kind, v)
    \/ \E name \in Names : Remove(name)
    \/ \E name \in Names, v \in Values : SetValue(name, v)
    \/ \E name \in Names, rule \in Rules : RegisterRule(name, rule)
    \/ \E rule \in {"q1"}, targets \in TargetSpecs : RegisterRelationRule(rule, targets)

SpecSet == InitSet /\ [][NextSet]_vars

\* Every object reachable from id is the same object with the same fields in
\* both heaps.
SameObjects(h1, h2, id) ==
    /\ Reach(h1, {id}) = Reach(h2, {id})
    /\ \A i \in Reach(h1, {id}) : h1[i] = h2[i]

\* C1: add(name, x) on a name already in the set raises
\* OverrideParameterError, for a bare value and for a Param alike, and leaves
\* the set's names, Param objects, order and relation rules as they were.
C1_AddDuplicateFails ==
    (last.op = "add" /\ HasKey(last.pre[last.args.sid].data, last.args.name))
        => /\ last.err = "OverrideParameterError"
           /\ SameObjects(last.pre, heap, last.args.sid)

C1_Witness ==
    /\ last.op = "add"
    /\ HasKey(last.pre[last.args.sid].data, last.args.name)
    /\ last.args.kind = "Param"
    /\ Len(heap[last.args.sid].data) = 2
    /\ Len(heap[last.args.sid].relation_rules) > 0

-----------------------------------------------------------------------------
(* SpecMerge: merge and compose over two constructed sets *)

InitMerge ==
    \E ca \in Candidates(2), cb \in Candidates(2), ra \in BOOLEAN, rb \in BOOLEAN :
      \E rla \in RelationRules(ca), rlb \in RelationRules(cb) :
        LET a == BuildSet(<<>>, ca, rla, ra)
            b == BuildSet(a.heap, cb, rlb, rb)
        IN  /\ ra => ca # <<>>
            /\ rb => cb # <<>>
            /\ Start(b.heap, a.id, b.id)

\* merged = ParamComposer.merge(dst, src, override).
Merge(dst, src, override) ==
    LET r == ParamComposer_merge(heap, IdOf(dst), IdOf(src), override)
    IN  /\ Called("merge", [dst |-> IdOf(dst), src |-> IdOf(src), override |-> override],
                  r, r.ret)
        /\ UNCHANGED <<params, precedence, validator>>

\* composed = composer.compose().
Compose ==
    LET r == ParamComposer_compose(heap, params, precedence)
    IN  /\ Called("compose", <<>>, r, r.ret)
        /\ UNCHANGED <<params, precedence, validator>>

NextMerge ==
    \/ \E dst \in Range(SetNames), src \in Range(SetNames), override \in BOOLEAN :
          Merge(dst, src, override)
    \/ Compose

SpecMerge == InitMerge /\ [][NextMerge]_vars

\* The set a successful merge or compose returned.
Result == heap[res[1].v]
Returned == last.err = "ok" /\ Len(res) = 1 /\ IsRef(res[1])

\* C2: merge(dst, src, override) returns a set whose names are those of dst
\* or src; a name of one side only has that side's Param content; a name of
\* both has dst's without override and src's with override.
C2_MergeValues ==
    last.op = "merge" =>
        /\ Returned
        /\ LET d == last.pre[last.args.dst].data
               s == last.pre[last.args.src].data
           IN  \A n \in Names :
                 /\ HasKey(Result.data, n) <=> (HasKey(d, n) \/ HasKey(s, n))
                 /\ HasKey(Result.data, n) =>
                      Content(heap, Get(Result.data, n)) =
                        IF HasKey(s, n) /\ (last.args.override \/ ~HasKey(d, n))
                        THEN Content(last.pre, Get(s, n))
                        ELSE Content(last.pre, Get(d, n))

\* C3: the relation rules of merge(dst, src, override) are dst's in order
\* followed by src's in order, none dropped, deduplicated or replaced.
C3_MergeRelationRules ==
    last.op = "merge" =>
        /\ Returned
        /\ Result.relation_rules =
             last.pre[last.args.dst].relation_rules
               \o last.pre[last.args.src].relation_rules

\* C4: merge returns a new set and leaves dst and src as they were: the same
\* names, Param objects, values, defaults, rules and relation rules.
C4_MergeLeavesArguments ==
    last.op = "merge" =>
        /\ Returned
        /\ res[1].v \notin DOMAIN last.pre
        /\ SameObjects(last.pre, heap, last.args.dst)
        /\ SameObjects(last.pre, heap, last.args.src)

\* C5: merge and compose return a set that shares no object with the sets
\* it was made from, so that assigning a value or registering a rule through
\* the result cannot change a Param of dst, src or a composer input.
C5_NoSharedState ==
    last.op \in {"merge", "compose"} =>
        /\ Returned
        /\ Reach(heap, {res[1].v}) \cap Reach(heap, {A, B}) = {}

-----------------------------------------------------------------------------
(* SpecCompose: the precedence of a composer and compose *)

InitCompose ==
    \E ca \in Candidates(1) \ {<<>>}, cb \in Candidates(1) \ {<<>>} :
        LET a == BuildSet(<<>>, ca, <<>>, FALSE)
            b == BuildSet(a.heap, cb, <<>>, FALSE)
        IN  Start(b.heap, a.id, b.id)

\* The lists handed to set_precedence: up to MaxPrec names, among them "C",
\* which names no set of the composer.
PrecedenceLists == UNION {[1..m -> Range(SetNames) \cup {"C"}] : m \in 0..MaxPrec}

\* composer.set_precedence(p).
SetPrecedence(p) ==
    LET r == ParamComposer_set_precedence(params, precedence, p)
    IN  /\ precedence' = r.precedence
        /\ last' = [op |-> "set_precedence", args |-> [p |-> p], err |-> r.err,
                    pre |-> heap, preprec |-> precedence]
        /\ UNCHANGED <<heap, params, res, validator>>

NextCompose ==
    \/ \E p \in PrecedenceLists : SetPrecedence(p)
    \/ Compose

SpecCompose == InitCompose /\ [][NextCompose]_vars

\* The position in prec of the last set that holds the name n (0 if none).
LastHolder(h, ps, prec, n) ==
    LET H == {i \in 1..Len(prec) :
                HasKey(ps, prec[i]) /\ HasKey(h[Get(ps, prec[i])].data, n)}
    IN  IF H = {} THEN 0 ELSE CHOOSE i \in H : \A j \in H : j <= i

\* C6: compose() returns a set that holds, for every name of some set, the
\* Param content of the last set in the current precedence order that
\* contains the name, and no other name; the order is the construction order
\* until a set_precedence call succeeds.
C6_ComposeLastWins ==
    /\ last.op = "none" => precedence = Keys(params)
    /\ last.op = "compose" =>
        /\ Returned
        /\ \A n \in Names :
             LET i == LastHolder(last.pre, params, last.preprec, n)
             IN  /\ HasKey(Result.data, n) <=> i # 0
                 /\ i # 0 =>
                      Content(heap, Get(Result.data, n)) =
                        Content(last.pre, Get(last.pre[Get(params, last.preprec[i])].data, n))

\* C7: set_precedence(p) raises ValueError whenever p misses the name of a
\* set of the composer, and then the precedence order is the one before the
\* call.
C7_SetPrecedenceRejects ==
    (last.op = "set_precedence"
       /\ \E i \in 1..Len(params) : params[i].k \notin Range(last.args.p))
        => /\ last.err = "ValueError"
           /\ precedence = last.preprec

C7_Witness ==
    /\ last.op = "set_precedence"
    /\ last.args.p = <<"A">>
    /\ last.err = "ValueError"
    /\ last.preprec = <<"B", "A">>
    /\ precedence = <<"B", "A">>

-----------------------------------------------------------------------------
(* SpecSweep: sweep parameters and the sweep grid of one set, A *)

SweepLists == UNION {[1..m -> {IntV(v) : v \in Values}] : m \in 0..MaxSweep}

\* What the driver puts under a name: a bare value (a static parameter), a
\* ParamGrid handed to add ("grid"), or a ParamGrid written with |= ("raw").
\* The grid is ParamGrid(Param(), sv), with rule "r1" registered or not.
SweepEntries ==
    {[k |-> n, kind |-> "bare", v |-> IntV(v), sv |-> <<>>, rule |-> FALSE] :
        n \in Names, v \in Values}
      \cup {[k |-> n, kind |-> kd, v |-> None, sv |-> sv, rule |-> b] :
              n \in Names, kd \in {"grid", "raw"}, sv \in SweepLists, b \in BOOLEAN}

SweepCandidates ==
    {c \in UNION {[1..m -> SweepEntries] : m \in 0..2} :
        \A i, j \in 1..Len(c) : c[i].k = c[j].k => i = j}

NewGrid(h, e) ==
    LET p == Alloc(h, NewParam(None))
        g == Alloc(p.heap, NewParamGrid(p.id, e.sv))
    IN  [heap |-> IF e.rule THEN ParamGrid_register_rule(g.heap, g.id, "r1").heap
                  ELSE g.heap,
         id |-> g.id]

RECURSIVE BuildSweep(_, _, _)
BuildSweep(h, sid, c) ==
    IF c = <<>> THEN h
    ELSE LET e == Head(c)
             g == NewGrid(h, e)
             h2 == IF e.kind = "bare" THEN ParameterSet_add(h, sid, e.k, e.v).heap
                   ELSE IF e.kind = "grid"
                   THEN ParameterSet_add(g.heap, sid, e.k, Ref(g.id)).heap
                   ELSE UserDict_ior(g.heap, sid, e.k, g.id).heap
         IN  BuildSweep(h2, sid, Tail(c))

InitSweep ==
    \E c \in SweepCandidates :
        LET a == BuildSet(<<>>, <<>>, <<>>, FALSE)
            b == BuildSet(a.heap, <<>>, <<>>, FALSE)
        IN  Start(BuildSweep(b.heap, a.id, c), a.id, b.id)

\* The ParamGrid under a name: the entry itself, or the default of the Param
\* that add wrapped it in (0 if there is none).
GridAt(h, sid, name) ==
    LET o == h[Get(h[sid].data, name)]
    IN  IF o.kind = "ParamGrid" THEN Get(h[sid].data, name)
        ELSE IF IsRef(o.default) /\ h[o.default.v].kind = "ParamGrid" THEN o.default.v
        ELSE 0

\* grid = ParamSweeper.generate_sweep_grid(A).
GenerateSweepGrid ==
    /\ CalledRet("generate_sweep_grid", [sid |-> A],
                 ParamSweeper_generate_sweep_grid(heap, A))
    /\ UNCHANGED <<params, precedence, validator>>

\* generated = g.generate_params() on the ParamGrid g under a name of A.
GenerateParams(name) ==
    /\ HasKey(heap[A].data, name)
    /\ GridAt(heap, A, name) # 0
    /\ CalledRet("generate_params", [gid |-> GridAt(heap, A, name)],
                 ParamGrid_generate_params(heap, GridAt(heap, A, name)))
    /\ UNCHANGED <<params, precedence, validator>>

NextSweep ==
    \/ GenerateSweepGrid
    \/ \E name \in Names : GenerateParams(name)

SpecSweep == InitSweep /\ [][NextSweep]_vars

\* The static names of a set (entries that are no ParamGrid), in order.
StaticNames(h, sid) ==
    Keys(SelectSeq(h[sid].data, LAMBDA e : h[e.v].kind # "ParamGrid"))

\* The sweep values of the ParamGrid entries of a set, in insertion order.
SweepValues(h, sid) ==
    LET names == SweepNames(h, sid)
    IN  [j \in 1..Len(names) |-> h[Get(h[sid].data, names[j])].sweep_values]

\* C8: generate_sweep_grid() returns one set per combination of sweep
\* values, in lexicographic order with the dimensions in insertion order and
\* the last one fastest (as many sets as the product of the sweep sizes, none
\* for a dimension of size zero); in each, every sweep name holds a Param
\* whose value is the combination's, and every static parameter is the
\* input's.
C8_SweepGridProduct ==
    last.op = "generate_sweep_grid" =>
        LET sid == last.args.sid
            names == SweepNames(last.pre, sid)
            combos == Product(SweepValues(last.pre, sid))
        IN  /\ last.err = "ok"
            /\ Len(res) = Len(combos)
            /\ \A i \in 1..Len(res) :
                 /\ IsRef(res[i])
                 /\ Keys(heap[res[i].v].data) = Keys(last.pre[sid].data)
                 /\ \A j \in 1..Len(names) :
                      /\ heap[Get(heap[res[i].v].data, names[j])].kind = "Param"
                      /\ heap[Get(heap[res[i].v].data, names[j])].value = combos[i][j]
                 /\ \A n \in Range(StaticNames(last.pre, sid)) :
                      Content(heap, Get(heap[res[i].v].data, n)) =
                        Content(last.pre, Get(last.pre[sid].data, n))

\* C9: on a set without ParamGrid entry, generate_sweep_grid() returns a
\* list of exactly one set, another object than the input, with the input's
\* names, values, rules and relation rules.
C9_NoSweepSingleCopy ==
    (last.op = "generate_sweep_grid" /\ SweepNames(last.pre, last.args.sid) = <<>>)
        => /\ last.err = "ok"
           /\ Len(res) = 1
           /\ IsRef(res[1])
           /\ res[1].v # last.args.sid
           /\ Content(heap, res[1].v) = Content(last.pre, last.args.sid)

\* C10: generate_params() on a grid of N sweep values returns N Param
\* objects, the i-th with the template's rules and sweep_values[i] as its
\* value, each a new object distinct from the template and from the others,
\* and the template keeps its value.
C10_GenerateParams ==
    last.op = "generate_params" =>
        LET g == last.pre[last.args.gid]
        IN  /\ last.err = "ok"
            /\ Len(res) = Len(g.sweep_values)
            /\ \A i \in 1..Len(res) :
                 /\ IsRef(res[i])
                 /\ res[i].v \notin DOMAIN last.pre
                 /\ heap[res[i].v].kind = "Param"
                 /\ heap[res[i].v].value = g.sweep_values[i]
                 /\ heap[res[i].v].rules = last.pre[g.param].rules
                 /\ \A j \in 1..Len(res) : res[j] = res[i] => j = i
            /\ heap[g.param] = last.pre[g.param]

\* C11: on a set with at least one ParamGrid entry, generate_sweep_grid()
\* succeeds (no duplicate-name error), every sweep name of every returned set
\* holds a Param made by the call (neither the ParamGrid nor its template),
\* and the input set and its grids are as they were before the call.
C11_SweepReplacesNames ==
    (last.op = "generate_sweep_grid" /\ SweepNames(last.pre, last.args.sid) # <<>>)
        => /\ last.err = "ok"
           /\ \A i \in 1..Len(res) :
                /\ IsRef(res[i])
                /\ \A n \in Range(SweepNames(last.pre, last.args.sid)) :
                     /\ heap[Get(heap[res[i].v].data, n)].kind = "Param"
                     /\ Get(heap[res[i].v].data, n) \notin DOMAIN last.pre
           /\ SameObjects(last.pre, heap, last.args.sid)

-----------------------------------------------------------------------------
(* SpecParam: reading and copying the parameters of one set, A *)

\* ParameterSet.get: self[name].get(); a missing name is the KeyError of
\* UserDict.__getitem__, an entry without get (a ParamGrid) an AttributeError.
ParameterSet_get(h, sid, name) ==
    IF ~HasKey(h[sid].data, name) THEN Raise(h, "KeyError")
    ELSE IF h[Get(h[sid].data, name)].kind # "Param" THEN Raise(h, "AttributeError")
    ELSE Return(h, <<Param_get(h, Get(h[sid].data, name))>>)

\* What copy() hands back: the new object, or the error.
Copied(c) ==
    IF c.err # "ok" THEN Raise(c.heap, c.err) ELSE Return(c.heap, <<Ref(c.id)>>)

InitParam ==
    \E c \in Candidates(2), withRule \in BOOLEAN :
        /\ withRule => c # <<>>
        /\ LET a == BuildSet(<<>>, c, <<>>, withRule)
               b == BuildSet(a.heap, <<>>, <<>>, FALSE)
           IN  Start(b.heap, a.id, b.id)

\* A.add(name, ParameterSet()): a nested set, stored as the default of a Param.
AddNested(name) ==
    /\ Called("add", [sid |-> A, name |-> name, kind |-> "ParameterSet", v |-> 0],
              ParameterSet_add(ParameterSet_init(heap, <<>>, <<>>).heap, A, name,
                               ParameterSet_init(heap, <<>>, <<>>).ret[1]), <<>>)
    /\ UNCHANGED <<params, precedence, validator>>

\* v = A[name].get().
GetValue(name) ==
    /\ HasKey(heap[A].data, name)
    /\ CalledRet("Param.get", [sid |-> A, name |-> name],
                 Return(heap, <<Param_get(heap, Get(heap[A].data, name))>>))
    /\ UNCHANGED <<params, precedence, validator>>

\* v = A.get(name).
GetByName(name) ==
    /\ CalledRet("ParameterSet.get", [sid |-> A, name |-> name],
                 ParameterSet_get(heap, A, name))
    /\ UNCHANGED <<params, precedence, validator>>

\* c = A[name].copy().
CopyParam(name) ==
    /\ HasKey(heap[A].data, name)
    /\ CalledRet("Param.copy", [id |-> Get(heap[A].data, name)],
                 Copied(Param_copy(heap, Get(heap[A].data, name))))
    /\ UNCHANGED <<params, precedence, validator>>

\* c = A.copy().
CopySet ==
    /\ CalledRet("ParameterSet.copy", [id |-> A], Copied(ParameterSet_copy(heap, A)))
    /\ UNCHANGED <<params, precedence, validator>>

\* The client holds a copy c made by Param.copy.
HoldsCopy ==
    /\ last.op \in {"Param.copy", "copy.set", "copy.register_rule"}
    /\ last.err = "ok"
    /\ Len(res) = 1 /\ IsRef(res[1])

\* c.set(v) on the copy.
SetOnCopy(v) ==
    /\ HoldsCopy
    /\ Called("copy.set", [id |-> res[1].v, v |-> v],
              Param_set(heap, res[1].v, IntV(v)), res)
    /\ UNCHANGED <<params, precedence, validator>>

\* c.register_rule(rule) on the copy.
RegisterRuleOnCopy(rule) ==
    /\ HoldsCopy
    /\ Len(heap[res[1].v].rules) <= MaxRules
    /\ Called("copy.register_rule", [id |-> res[1].v, rule |-> rule],
              Param_register_rule(heap, res[1].v, rule), res)
    /\ UNCHANGED <<params, precedence, validator>>

NextParam ==
    \/ \E name \in Names, v \in Values : SetValue(name, v)
    \/ \E name \in Names : AddNested(name)
    \/ \E name \in Names : GetValue(name)
    \/ \E name \in Names : GetByName(name)
    \/ \E name \in Names : CopyParam(name)
    \/ CopySet
    \/ \E v \in Values : SetOnCopy(v)
    \/ \E rule \in Rules : RegisterRuleOnCopy(rule)

SpecParam == InitParam /\ [][NextParam]_vars

\* C12: copy() of a Param or of a ParameterSet returns a new object with the
\* content of the original and no object in common with it, and value
\* assignments and rule registrations on the copy leave the original as it
\* was.
C12_CopyIndependent ==
    /\ last.op \in {"Param.copy", "ParameterSet.copy"}
         => /\ last.err = "ok"
            /\ Len(res) = 1 /\ IsRef(res[1])
            /\ res[1].v \notin DOMAIN last.pre
            /\ Content(heap, res[1].v) = Content(last.pre, last.args.id)
            /\ Reach(heap, {res[1].v}) \cap Reach(heap, {A}) = {}
    /\ last.op \in {"copy.set", "copy.register_rule"}
         => /\ SameObjects(last.pre, heap, A)
            /\ Reach(heap, {res[1].v}) \cap Reach(heap, {A}) = {}

\* C20: Param.get(), and the set's read by name, return the value set at
\* run time when there is one and the default of the parameter otherwise.
C20_GetValueOrDefault ==
    (last.op \in {"Param.get", "ParameterSet.get"}
       /\ HasKey(last.pre[last.args.sid].data, last.args.name))
        => LET p == last.pre[Get(last.pre[last.args.sid].data, last.args.name)]
           IN  /\ last.err = "ok"
               /\ res = <<IF p.value # None THEN p.value ELSE p.default>>

-----------------------------------------------------------------------------
(* Rules and their errors *)

\* The SingleValueRule instances: "r1" is TypeRule(int), "r2" is
\* RangeRule(ge=2).  The MultiValueRule instances: "q1" is
\* MultiValueRule(lambda a, b: a <= b), "q2" is MultiValueRule of a function
\* of (a, b) that raises ValueError.
SingleValueRules == {"r1", "r2"}

\* rule.__class__.__name__
ClassName(rule) ==
    IF rule = "r1" THEN "TypeRule"
    ELSE IF rule = "r2" THEN "RangeRule"
    ELSE "MultiValueRule"

\* The formal arguments of what a rule calls: check(self, value) of a
\* SingleValueRule, func(a, b) of a MultiValueRule.
Formals(rule) == IF rule \in SingleValueRules THEN <<"value">> ELSE <<"a", "b">>

\* A call f(*args, **kwargs): the positional values and the keyword dict.
Call(args, kwargs) == [args |-> args, kwargs |-> kwargs]

\* Python's binding of a call to formals: positional values first, keywords
\* by name; an unexpected keyword, a formal given twice, a missing formal or
\* too many positional values is a TypeError.
Bind(formals, call) ==
    IF \/ Len(call.args) > Len(formals)
       \/ \E i \in 1..Len(call.kwargs) : call.kwargs[i].k \notin Range(formals)
       \/ \E j \in 1..Len(call.args) : HasKey(call.kwargs, formals[j])
       \/ \E j \in (Len(call.args) + 1)..Len(formals) : ~HasKey(call.kwargs, formals[j])
    THEN [err |-> "TypeError", vals |-> <<>>]
    ELSE [err |-> "ok",
          vals |-> [j \in 1..Len(formals) |->
                      IF j <= Len(call.args) THEN call.args[j]
                      ELSE Get(call.kwargs, formals[j])]]

\* A str value, beside None and the ints.
StrV == [t |-> "str", v |-> 0]

\* An order comparison of two values: defined on ints, a TypeError otherwise
\* (None >= 2).
Compare(op, v, w) ==
    IF v.t # "int" \/ w.t # "int" THEN [err |-> "TypeError", ok |-> FALSE]
    ELSE [err |-> "ok",
          ok |-> IF op = ">=" THEN v.v >= w.v
                 ELSE IF op = ">" THEN v.v > w.v
                 ELSE IF op = "<" THEN v.v < w.v
                 ELSE v.v <= w.v]

\* One record shape for the TypeRule and RangeRule objects.
BlankRule ==
    [class |-> "none", expected_type |-> [kind |-> "none", elems |-> <<>>],
     ge |-> None, gt |-> None, le |-> None, lt |-> None]

\* What is handed to TypeRule as expected_type: a type (int, str), a tuple
\* of elements, or another object (the int 3).  An element is a type, "int"
\* or "str", or the int 3, which is none.
TypeObj(name) == [kind |-> "type", elems |-> <<name>>]
TupleObj(elems) == [kind |-> "tuple", elems |-> elems]
IsType(e) == e \in {"int", "str"}

\* TypeRule.__init__: anything that is not a type or a tuple raises TypeError.
TypeRule_init(expected_type) ==
    IF expected_type.kind \in {"type", "tuple"}
    THEN [err |-> "ok",
          rule |-> [BlankRule EXCEPT !.class = "TypeRule",
                                     !.expected_type = expected_type]]
    ELSE [err |-> "TypeError", rule |-> BlankRule]

\* isinstance(value, class_or_tuple): the elements are tried in order; the
\* first type the value is an instance of gives True, an element that is no
\* type met before that raises TypeError; an exhausted tuple gives False.
RECURSIVE isinstance(_, _, _)
isinstance(pv, elems, i) ==
    IF i > Len(elems) THEN [err |-> "ok", ok |-> FALSE]
    ELSE IF ~IsType(elems[i]) THEN [err |-> "TypeError", ok |-> FALSE]
    ELSE IF pv.t = elems[i] THEN [err |-> "ok", ok |-> TRUE]
    ELSE isinstance(pv, elems, i + 1)

\* TypeRule.check: isinstance(value, self.expected_type).
TypeRule_check(rule, vals) == isinstance(vals[1], rule.expected_type.elems, 1)

\* RangeRule.__init__: the four bounds, None when unset.
RangeRule_init(ge, gt, le, lt) ==
    [BlankRule EXCEPT !.class = "RangeRule", !.ge = ge, !.gt = gt, !.le = le, !.lt = lt]

\* (mutant of RangeConstraints) a bound counts as set when it is truthy, so
\* that a bound of 0 is dropped.
RangeConstraints_truthy(rule) ==
    SelectSeq(<<[op |-> ">", c |-> rule.gt], [op |-> ">=", c |-> rule.ge],
                [op |-> "<", c |-> rule.lt], [op |-> "<=", c |-> rule.le]>>,
              LAMBDA e : e.c # None /\ e.c # IntV(0))

\* The constraints of RangeRule.check, in the order of its list, that pass
\* "if constraint is not None".
RangeConstraints(rule) ==
    SelectSeq(<<[op |-> ">", c |-> rule.gt], [op |-> ">=", c |-> rule.ge],
                [op |-> "<", c |-> rule.lt], [op |-> "<=", c |-> rule.le]>>,
              LAMBDA e : e.c # None)

\* all(func(value, constraint) for ...): the comparisons in order, up to the
\* first that is False or raises.
RECURSIVE AllOf(_, _, _)
AllOf(cs, pv, i) ==
    IF i > Len(cs) THEN [err |-> "ok", ok |-> TRUE]
    ELSE IF Compare(cs[i].op, pv, cs[i].c).err # "ok" \/ ~Compare(cs[i].op, pv, cs[i].c).ok
    THEN Compare(cs[i].op, pv, cs[i].c)
    ELSE AllOf(cs, pv, i + 1)

\* RangeRule.check: all the comparisons whose bound is set.
RangeRule_check(rule, vals) == AllOf(RangeConstraints(rule), vals[1], 1)

\* The rule objects behind the instances: "r1" is TypeRule(int), "r2" is
\* RangeRule(ge=2).
RuleObject(rule) ==
    IF rule = "r1" THEN TypeRule_init(TypeObj("int")).rule
    ELSE RangeRule_init(IntV(2), None, None, None)

\* MultiValueRule.check: self.func(*args, **kwargs).
MultiValueRule_check(rule, vals) ==
    IF rule = "q1" THEN Compare("<=", vals[1], vals[2])
    ELSE [err |-> "ValueError", ok |-> FALSE]

\* rule.check(*args, **kwargs)
Rule_check(rule, call) ==
    IF Bind(Formals(rule), call).err # "ok"
    THEN [err |-> Bind(Formals(rule), call).err, ok |-> FALSE]
    ELSE IF rule = "r1" THEN TypeRule_check(RuleObject(rule), Bind(Formals(rule), call).vals)
    ELSE IF rule = "r2" THEN RangeRule_check(RuleObject(rule), Bind(Formals(rule), call).vals)
    ELSE MultiValueRule_check(rule, Bind(Formals(rule), call).vals)

\* No error: Python's None where an error is expected.
NoError == [class |-> "None", message |-> <<>>]

\* TypeValidationError(value, expected_type) and its message.
TypeValidationError(pv) ==
    [class |-> "TypeValidationError",
     message |-> <<"Type", pv.t, "for value", pv, "required", "int">>]

\* RangeValidationError(value, ge=2) and its message.
RangeValidationError(pv) ==
    [class |-> "RangeValidationError",
     message |-> <<"Value", pv, "out of bounds: required", ">=", IntV(2)>>]

\* CheckError(exception) and its message.
CheckError(exc) ==
    [class |-> "CheckError",
     message |-> <<"Execution failed for validation check:", exc>>]

\* rule.create_error(*args, **kwargs).  RelationValidationError builds its
\* message from bound_args, a name that is bound nowhere: NameError, which
\* the except clause of format_message does not list.
Rule_create_error(rule, call) ==
    IF rule = "r1" THEN [err |-> "ok", error |-> TypeValidationError(call.args[1])]
    ELSE IF rule = "r2" THEN [err |-> "ok", error |-> RangeValidationError(call.args[1])]
    ELSE [err |-> "NameError", error |-> NoError]

\* Rule.get_error: None when check passes, the rule's error otherwise.
Rule_get_error(rule, call) ==
    IF Rule_check(rule, call).err # "ok"
    THEN [err |-> Rule_check(rule, call).err, error |-> NoError]
    ELSE IF Rule_check(rule, call).ok THEN [err |-> "ok", error |-> NoError]
    ELSE Rule_create_error(rule, call)

-----------------------------------------------------------------------------
(* ReportEntry, ValidationRecorder, Checker, Validator *)

\* Python's True and False as returned values.
BoolV(b) == [t |-> "bool", v |-> IF b THEN 1 ELSE 0]

\* ReportEntry(rule, targets, success, message); success is "True", "False"
\* or "None".
ReportEntry(rule, targets, success, message) ==
    [rule |-> rule, targets |-> targets, success |-> success, message |-> message]

\* ValidationRecorder(): empty report and errors.
ValidationRecorder_init == [report |-> <<>>, errors |-> <<>>]

\* ValidationRecorder.record: success is (error is None); an error is
\* collected and gives its message.
ValidationRecorder_record(rec, rule, targets, error) ==
    [report |-> Append(rec.report,
                       ReportEntry(ClassName(rule), targets,
                                   IF error = NoError THEN "True" ELSE "False",
                                   IF error = NoError THEN <<"PASSED">> ELSE error.message)),
     errors |-> IF error = NoError THEN rec.errors ELSE Append(rec.errors, error)]

\* ValidationRecorder.has_errors
ValidationRecorder_has_errors(rec) == rec.errors # <<>>

\* Checker(rule, targets): a mapping gives the "kwargs" mode, a list "args".
Checker_init(rule, targets) ==
    [rule |-> rule,
     argument_mode |-> IF targets.mode = "dict" THEN "kwargs" ELSE "args",
     targets |-> targets]

\* Checker.bind_targets: params[name].value for name in self.targets; in an
\* iteration over a dict, name is a key of it, the parameter name.
Checker_bind_targets(h, chk, sid) ==
    IF \E i \in 1..Len(chk.targets.names) : ~HasKey(h[sid].data, chk.targets.names[i])
    THEN [err |-> "KeyError", call |-> Call(<<>>, <<>>)]
    ELSE IF \E i \in 1..Len(chk.targets.names) :
              h[Get(h[sid].data, chk.targets.names[i])].kind # "Param"
    THEN [err |-> "AttributeError", call |-> Call(<<>>, <<>>)]
    ELSE IF chk.argument_mode = "args"
    THEN [err |-> "ok",
          call |-> Call([i \in 1..Len(chk.targets.names) |->
                           h[Get(h[sid].data, chk.targets.names[i])].value], <<>>)]
    ELSE [err |-> "ok",
          call |-> Call(<<>>, [i \in 1..Len(chk.targets.names) |->
                                 [k |-> chk.targets.names[i],
                                  v |-> h[Get(h[sid].data, chk.targets.names[i])].value]])]

\* Checker.check: rule.get_error(*values) or rule.get_error(**values).
CheckerCall(b, chk) ==
    IF b.err # "ok" THEN [err |-> b.err, error |-> NoError, call |-> b.call]
    ELSE [err |-> Rule_get_error(chk.rule, b.call).err,
          error |-> Rule_get_error(chk.rule, b.call).error,
          call |-> b.call]

Checker_check(h, chk, sid) == CheckerCall(Checker_bind_targets(h, chk, sid), chk)

\* Validator(params, strict)
Validator_init(sid, strict) ==
    [params |-> sid, strict |-> strict, recorder |-> ValidationRecorder_init,
     checks |-> <<>>]

\* Validator.init_checks: one Checker per rule of every parameter, in the
\* set's order, then one per relation rule.
Validator_init_checks(h, v) ==
    Flatten([i \in 1..Len(h[v.params].data) |->
               [j \in 1..Len(h[h[v.params].data[i].v].rules) |->
                  Checker_init(h[h[v.params].data[i].v].rules[j],
                               ListTargets(<<h[v.params].data[i].k>>))]])
      \o [i \in 1..Len(h[v.params].relation_rules) |->
            Checker_init(h[v.params].relation_rules[i].rule,
                         h[v.params].relation_rules[i].targets)]

\* Validator.filter: a non-empty include_only keeps the checks whose rule is
\* in it; otherwise a non-empty exclude drops the checks whose rule is in it.
Validator_filter(checks, include_only, exclude) ==
    IF include_only # <<>>
    THEN SelectSeq(checks, LAMBDA chk : chk.rule \in Range(include_only))
    ELSE IF exclude # <<>>
    THEN SelectSeq(checks, LAMBDA chk : chk.rule \notin Range(exclude))
    ELSE checks

\* A local name of a function that no statement has bound yet.
Unbound == [unbound |-> TRUE]

\* One turn of the loop of validate: bind_targets, then self.check(rule,
\* values), a method Validator does not have (AttributeError); whatever is
\* raised becomes a CheckError, which is recorded.
LoopError(b) == CheckError(IF b.err # "ok" THEN b.err ELSE "AttributeError")

RECURSIVE ValidateLoop(_, _, _, _)
ValidateLoop(h, v, checks, i) ==
    IF i > Len(checks) THEN v
    ELSE ValidateLoop(h,
            [v EXCEPT !.recorder =
                ValidationRecorder_record(@, checks[i].rule, checks[i].targets,
                    LoopError(Checker_bind_targets(h, checks[i], v.params)))],
            checks, i + 1)

\* The end of validate: valid = not has_errors(); strict and not valid
\* raises GlobalValidationError(errors); otherwise valid is returned.
ValidateEnd(v) ==
    IF v.strict /\ ValidationRecorder_has_errors(v.recorder)
    THEN [validator |-> v, err |-> "GlobalValidationError", ret |-> <<>>,
          raised |-> v.recorder.errors]
    ELSE [validator |-> v, err |-> "ok",
          ret |-> <<BoolV(~ValidationRecorder_has_errors(v.recorder))>>,
          raised |-> <<>>]

\* The statements of validate after self.checks = self.init_checks(), with
\* the value of the local name checks.  The filter call and the loop both
\* read the local name.
ValidateFrom(h, v, local, include_only, exclude) ==
    IF local = Unbound
    THEN [validator |-> v, err |-> "UnboundLocalError", ret |-> <<>>, raised |-> <<>>]
    ELSE ValidateEnd(ValidateLoop(h, v,
            IF include_only # <<>> \/ exclude # <<>>
            THEN Validator_filter(local, include_only, exclude) ELSE local, 1))

\* Validator.validate: report and errors are cleared, self.checks is
\* assigned; the local name checks is assigned nowhere before it is read.
Validator_validate(h, v, include_only, exclude) ==
    ValidateFrom(h,
                 [v EXCEPT !.recorder = ValidationRecorder_init,
                           !.checks = Validator_init_checks(h, v)],
                 Unbound, include_only, exclude)

-----------------------------------------------------------------------------
(* SpecValidate: a Validator on the set A *)

\* The sets that are validated: the names in either order, defaults 1.
ValidatedCandidates == {c \in Candidates(2) : \A i \in 1..Len(c) : c[i].v = IntV(1)}

\* The rules registered on one parameter, in registration order.
RuleLists == {<<>>, <<"r2">>, <<"r1", "r2">>}

\* The relation rules registered on a set of two names: none, q1 over the
\* names as a list, q1 over a mapping of the names to the formals a and b,
\* or q2 and then q1 over the list.
RelationConfigs(c) ==
    IF Len(c) < 2 THEN {<<>>}
    ELSE {<<>>,
          <<[rule |-> "q1", targets |-> ListTargets(Keys(c))]>>,
          <<[rule |-> "q1", targets |-> DictTargets(Keys(c), <<"a", "b">>)]>>,
          <<[rule |-> "q2", targets |-> ListTargets(Keys(c))],
            [rule |-> "q1", targets |-> ListTargets(Keys(c))]>>}

\* s.register_rule(name, rule) for every rule of a list.
RECURSIVE RegisterRules(_, _, _, _)
RegisterRules(h, sid, name, rules) ==
    IF rules = <<>> THEN h
    ELSE RegisterRules(ParameterSet_register_rule(h, sid, name, Head(rules)).heap,
                       sid, name, Tail(rules))

\* The rules of every parameter of the set, parameter after parameter.
RECURSIVE RegisterAllRules(_, _, _, _, _)
RegisterAllRules(h, sid, c, rl, i) ==
    IF i > Len(c) THEN h
    ELSE RegisterAllRules(RegisterRules(h, sid, c[i].k, rl[i]), sid, c, rl, i + 1)

InitValidate ==
    \E c \in ValidatedCandidates, strict \in BOOLEAN :
      \E rl \in [1..Len(c) -> RuleLists], rels \in RelationConfigs(c) :
        LET a == BuildSet(<<>>, c, rels, FALSE)
            b == BuildSet(a.heap, <<>>, <<>>, FALSE)
        IN  /\ heap = RegisterAllRules(b.heap, a.id, c, rl, 1)
            /\ params = ParamComposer_init(a.id, b.id).params
            /\ precedence = ParamComposer_init(a.id, b.id).precedence
            /\ res = <<>>
            /\ last = NoCall
            /\ validator = Validator_init(a.id, strict)

\* The (include_only, exclude) pairs handed to validate and filter: no
\* filter, an allow-list, a deny-list, and both.
FilterArgs ==
    {[include_only |-> <<>>, exclude |-> <<>>],
     [include_only |-> <<"r1">>, exclude |-> <<>>],
     [include_only |-> <<>>, exclude |-> <<"r2", "q1">>],
     [include_only |-> <<"r2", "q1">>, exclude |-> <<"r2">>]}

\* validator.validate(include_only, exclude).
ValidateReturns(include_only, exclude, r) ==
    /\ validator' = r.validator
    /\ res' = r.ret
    /\ last' = [op |-> "validate",
                args |-> [include_only |-> include_only, exclude |-> exclude,
                          raised |-> r.raised],
                err |-> r.err, pre |-> heap, preprec |-> precedence]
    /\ UNCHANGED <<heap, params, precedence>>

Validate(include_only, exclude) ==
    ValidateReturns(include_only, exclude,
                    Validator_validate(heap, validator, include_only, exclude))

\* validator.init_checks()[i].check(validator.params).
CheckReturns(chk, r) ==
    /\ res' = <<>>
    /\ last' = [op |-> "Checker.check",
                args |-> [chk |-> chk, call |-> r.call, error |-> r.error],
                err |-> r.err, pre |-> heap, preprec |-> precedence]
    /\ UNCHANGED <<heap, params, precedence, validator>>

Check(i) ==
    /\ i \in 1..Len(Validator_init_checks(heap, validator))
    /\ CheckReturns(Validator_init_checks(heap, validator)[i],
                    Checker_check(heap, Validator_init_checks(heap, validator)[i],
                                  validator.params))

\* validator.recorder.record(rule, targets, error).
Record(rule, targets, error) ==
    /\ Len(validator.recorder.report) < MaxReport
    /\ validator' = [validator EXCEPT !.recorder =
                        ValidationRecorder_record(@, rule, targets, error)]
    /\ res' = <<>>
    /\ last' = [op |-> "record",
                args |-> [rule |-> rule, targets |-> targets, error |-> error],
                err |-> "ok", pre |-> heap, preprec |-> precedence]
    /\ UNCHANGED <<heap, params, precedence>>

\* Validator.filter(validator.init_checks(), include_only, exclude).
Filter(include_only, exclude) ==
    /\ res' = <<>>
    /\ last' = [op |-> "filter",
                args |-> [include_only |-> include_only, exclude |-> exclude,
                          result |-> Validator_filter(Validator_init_checks(heap, validator),
                                                      include_only, exclude)],
                err |-> "ok", pre |-> heap, preprec |-> precedence]
    /\ UNCHANGED <<heap, params, precedence, validator>>

NextValidate ==
    \/ \E name \in Names, v \in Values : SetValue(name, v)
    \/ \E f \in FilterArgs : Validate(f.include_only, f.exclude)
    \/ \E i \in 1..MaxObj : Check(i)
    \/ \E error \in {NoError, CheckError("ValueError")} :
         Record("r1", ListTargets(<<"x">>), error)
    \/ \E f \in FilterArgs : Filter(f.include_only, f.exclude)

SpecValidate == InitValidate /\ [][NextValidate]_vars

\* The outcome of one check on the set: "pass", "fail" (the rule returns its
\* error) or "error" (something raises while the check runs).
Outcome(h, chk, sid) ==
    IF Checker_check(h, chk, sid).err # "ok" THEN "error"
    ELSE IF Checker_check(h, chk, sid).error = NoError THEN "pass"
    ELSE "fail"

\* The (rule, target names) pairs of a set in check order: every rule of
\* every parameter, parameters in the set's order and rules in registration
\* order, then the relation rules in registration order.
ChecksInOrder(h, sid) ==
    Flatten([i \in 1..Len(h[sid].data) |->
               [j \in 1..Len(h[h[sid].data[i].v].rules) |->
                  [rule |-> h[h[sid].data[i].v].rules[j],
                   names |-> <<h[sid].data[i].k>>]]])
      \o [i \in 1..Len(h[sid].relation_rules) |->
            [rule |-> h[sid].relation_rules[i].rule,
             names |-> h[sid].relation_rules[i].targets.names]]

\* The checks a validate call is to execute: those of the allow-list when
\* one is given, else those outside the deny-list when one is given, else
\* all, in check order.
Executed(h, v, include_only, exclude) ==
    IF include_only # <<>>
    THEN SelectSeq(Validator_init_checks(h, v), LAMBDA chk : chk.rule \in Range(include_only))
    ELSE SelectSeq(Validator_init_checks(h, v), LAMBDA chk : chk.rule \notin Range(exclude))

\* The checks of the last validate call, and those among them that do not pass.
LastExecuted ==
    Executed(last.pre, validator, last.args.include_only, last.args.exclude)

NotPassed ==
    SelectSeq(LastExecuted, LAMBDA chk : Outcome(last.pre, chk, validator.params) # "pass")

\* C13: with strict=False, validate() returns (never raises on rule
\* outcomes): True iff every executed check passed, False otherwise; with
\* exactly one check that does not pass, the report has exactly one entry
\* that is no success, named after the class of that check's rule.
C13_NonStrictReturns ==
    (last.op = "validate" /\ ~validator.strict)
        => /\ last.err = "ok"
           /\ res = <<BoolV(NotPassed = <<>>)>>
           /\ Len(NotPassed) = 1
                => SelectSeq([i \in 1..Len(validator.recorder.report) |->
                                [rule |-> validator.recorder.report[i].rule,
                                 success |-> validator.recorder.report[i].success]],
                             LAMBDA e : e.success # "True")
                     = <<[rule |-> ClassName(NotPassed[1].rule), success |-> "False"]>>

\* C14: with strict=True, validate() returns True when every check passes,
\* and otherwise raises GlobalValidationError carrying the collected errors,
\* one per check that did not pass, after all the checks have run.
C14_StrictRaises ==
    (last.op = "validate" /\ validator.strict)
        => IF NotPassed = <<>>
           THEN last.err = "ok" /\ res = <<BoolV(TRUE)>>
           ELSE /\ last.err = "GlobalValidationError"
                /\ last.args.raised = validator.recorder.errors
                /\ Len(last.args.raised) = Len(NotPassed)
                /\ Len(validator.recorder.report) = Len(LastExecuted)

\* C15: a check during which something raises is recorded by validate() as
\* an entry whose outcome is neither pass nor fail (success None), its
\* CheckError is among the collected errors, and every check of the list is
\* still recorded.
C15_ExecutionFailureRecorded ==
    (last.op = "validate"
       /\ \E i \in 1..Len(LastExecuted) :
            Outcome(last.pre, LastExecuted[i], validator.params) = "error")
        => /\ Len(validator.recorder.report) = Len(LastExecuted)
           /\ \A i \in 1..Len(LastExecuted) :
                Outcome(last.pre, LastExecuted[i], validator.params) = "error"
                  => /\ validator.recorder.report[i].success = "None"
                     /\ \E j \in 1..Len(validator.recorder.errors) :
                          /\ validator.recorder.errors[j].class = "CheckError"
                          /\ validator.recorder.errors[j].message
                               = validator.recorder.report[i].message

\* C16: after a validate() call, whatever the report held before, the
\* report has exactly one entry per check executed in that call and the
\* errors exactly one per check that did not pass.
C16_ReportOfLastCall ==
    last.op = "validate"
        => /\ last.err \in {"ok", "GlobalValidationError"}
           /\ Len(validator.recorder.report) = Len(LastExecuted)
           /\ Len(validator.recorder.errors) = Len(NotPassed)

\* C17: an unfiltered validate() executes one check per rule of every
\* parameter, in the set's order and the rules' registration order, then
\* one per relation rule, and the report lists them in that order.
C17_OneCheckPerRule ==
    (last.op = "validate" /\ last.args.include_only = <<>> /\ last.args.exclude = <<>>)
        => [i \in 1..Len(validator.recorder.report) |->
              [rule |-> validator.recorder.report[i].rule,
               names |-> validator.recorder.report[i].targets.names]]
             = [i \in 1..Len(ChecksInOrder(last.pre, validator.params)) |->
                  [rule |-> ClassName(ChecksInOrder(last.pre, validator.params)[i].rule),
                   names |-> ChecksInOrder(last.pre, validator.params)[i].names]]

\* C18: validate(include_only, exclude) with an allow-list runs exactly the
\* checks whose rule is in it, also when a deny-list is given; with a
\* deny-list only, exactly those whose rule is not in it; in check order.
C18_FilterRestricts ==
    (last.op = "validate"
       /\ (last.args.include_only # <<>> \/ last.args.exclude # <<>>))
        => /\ last.err \in {"ok", "GlobalValidationError"}
           /\ [i \in 1..Len(validator.recorder.report) |->
                 [rule |-> validator.recorder.report[i].rule,
                  targets |-> validator.recorder.report[i].targets]]
                = [i \in 1..Len(LastExecuted) |->
                     [rule |-> ClassName(LastExecuted[i].rule),
                      targets |-> LastExecuted[i].targets]]

\* The values of the target parameters of a check, in target order.
TargetValues(h, chk, sid) ==
    [i \in 1..Len(chk.targets.names) |-> h[Get(h[sid].data, chk.targets.names[i])].value]

\* C19: a relation rule's predicate is called with the current values of
\* its targets: positionally in list order for a list of names, and by
\* keyword under the mapped formal argument name for a mapping.
C19_TargetsBindPredicate ==
    (last.op = "Checker.check" /\ last.args.chk.rule \in RelRules)
        => last.args.call =
             IF last.args.chk.targets.mode = "list"
             THEN Call(TargetValues(last.pre, last.args.chk, validator.params), <<>>)
             ELSE Call(<<>>,
                       [i \in 1..Len(last.args.chk.targets.names) |->
                          [k |-> last.args.chk.targets.formals[i],
                           v |-> TargetValues(last.pre, last.args.chk, validator.params)[i]]])

-----------------------------------------------------------------------------
(* Invariants of a set's relation rules and of a composer's precedence *)

\* The names among the targets of the relation rules of a set that are no
\* entries of the set.
MissingTargets(h, sid) ==
    {n \in UNION {Range(h[sid].relation_rules[i].targets.names) :
                     i \in 1..Len(h[sid].relation_rules)} :
        ~HasKey(h[sid].data, n)}

\* C29: in every set the operations reach, every target name of every stored
\* relation rule is the name of an entry of the set.
C29_RelationTargetsPresent ==
    \A id \in DOMAIN heap :
        heap[id].kind = "ParameterSet" => MissingTargets(heap, id) = {}

\* C30: whatever set_precedence calls were made, the precedence order holds
\* only names of the composer's sets, each once, and compose() returns a set.
C30_PrecedenceNamesSets ==
    /\ \A i \in 1..Len(precedence) : HasKey(params, precedence[i])
    /\ \A i, j \in 1..Len(precedence) : precedence[i] = precedence[j] => i = j
    /\ last.op = "compose" => Returned

-----------------------------------------------------------------------------
(* Rule.get_error against Rule.check *)

\* The error class a rule class is declared with: TypeRule is a
\* SingleValueRule[TypeValidationError], and so on.
ErrorClass(rule) ==
    IF rule = "r1" THEN "TypeValidationError"
    ELSE IF rule = "r2" THEN "RangeValidationError"
    ELSE "RelationValidationError"

\* C27: for a call on which check returns, get_error returns no error iff
\* check returns True, and otherwise returns (never raises) the error of the
\* rule's kind, which carries the offending value.
C27_GetErrorIffCheckFails ==
    (/\ last.op = "Checker.check"
     /\ Checker_bind_targets(last.pre, last.args.chk, validator.params).err = "ok"
     /\ Rule_check(last.args.chk.rule, last.args.call).err = "ok")
        => /\ last.err = "ok"
           /\ last.args.error = NoError
                <=> Rule_check(last.args.chk.rule, last.args.call).ok
           /\ last.args.error # NoError
                => /\ last.args.error.class = ErrorClass(last.args.chk.rule)
                   /\ last.args.chk.rule = "r1"
                        => last.args.error = TypeValidationError(last.args.call.args[1])
                   /\ last.args.chk.rule = "r2"
                        => last.args.error = RangeValidationError(last.args.call.args[1])

-----------------------------------------------------------------------------
(* SpecRules: a TypeRule or a RangeRule is constructed, then checked *)

MaxBound == 2     \* the bounds of a RangeRule are None or 0..MaxBound
MaxTuple == 2     \* elements of a tuple handed to TypeRule

\* The bounds of a RangeRule and the values it is checked on.
Bounds == {None} \cup {IntV(n) : n \in 0..MaxBound}
CheckedValues == {IntV(n) : n \in (0 - 1)..(MaxBound + 1)} \cup {None, StrV}

\* What TypeRule is constructed with: int, str, the int 3, and the tuples of
\* up to MaxTuple elements among int, str and 3.
ExpectedTypes ==
    {TypeObj("int"), TypeObj("str"), [kind |-> "value", elems |-> <<"3">>]}
      \cup {TupleObj(e) : e \in UNION {[1..m -> {"int", "str", "3"}] : m \in 0..MaxTuple}}

\* The client holds the rule it constructed, if the constructor returned.
Constructed(class, args, r) ==
    /\ heap = <<>>
    /\ params = <<>>
    /\ precedence = <<>>
    /\ validator = NoValidator
    /\ res = IF r.err = "ok" THEN <<r.rule>> ELSE <<>>
    /\ last = [op |-> class, args |-> args, err |-> r.err, pre |-> <<>>, preprec |-> <<>>]

\* rule = RangeRule(ge, gt, le, lt), or rule = TypeRule(expected_type).
InitRules ==
    \/ \E ge \in Bounds, gt \in Bounds, le \in Bounds, lt \in Bounds :
         Constructed("RangeRule", [ge |-> ge, gt |-> gt, le |-> le, lt |-> lt],
                     [err |-> "ok", rule |-> RangeRule_init(ge, gt, le, lt)])
    \/ \E et \in ExpectedTypes :
         Constructed("TypeRule", [expected_type |-> et], TypeRule_init(et))

\* rule.check(v) returns True or False (ret), or raises.
CheckReturned(op, pv, r) ==
    /\ last' = [op |-> op, args |-> [rule |-> res[1], value |-> pv, ret |-> r.ok],
                err |-> r.err, pre |-> <<>>, preprec |-> <<>>]
    /\ UNCHANGED <<heap, params, precedence, validator, res>>

\* rule.check(v) on the RangeRule.
RangeCheck(pv) ==
    /\ res # <<>>
    /\ res[1].class = "RangeRule"
    /\ CheckReturned("RangeRule.check", pv,
                     RangeRule_check(res[1], <<pv>>))

\* rule.check(v) on the TypeRule.
TypeCheck(pv) ==
    /\ res # <<>>
    /\ res[1].class = "TypeRule"
    /\ CheckReturned("TypeRule.check", pv,
                     TypeRule_check(res[1], <<pv>>))

NextRules ==
    \/ \E pv \in CheckedValues : RangeCheck(pv)
    \/ \E pv \in CheckedValues : TypeCheck(pv)

SpecRules == InitRules /\ [][NextRules]_vars

\* C26: on a value the comparisons are defined for, RangeRule.check is the
\* conjunction of exactly the comparisons whose bound is set, a bound of 0
\* included; a rule without bounds accepts every value.
C26_RangeCheckIsConjunction ==
    last.op = "RangeRule.check" =>
        /\ last.args.value.t = "int" =>
             /\ last.err = "ok"
             /\ last.args.ret <=>
                  /\ last.args.rule.ge # None => last.args.value.v >= last.args.rule.ge.v
                  /\ last.args.rule.gt # None => last.args.value.v > last.args.rule.gt.v
                  /\ last.args.rule.le # None => last.args.value.v <= last.args.rule.le.v
                  /\ last.args.rule.lt # None => last.args.value.v < last.args.rule.lt.v
        /\ last.args.rule = RangeRule_init(None, None, None, None) =>
             last.err = "ok" /\ last.args.ret

C26_Witness ==
    /\ last.op = "RangeRule.check"
    /\ last.args.rule = RangeRule_init(IntV(0), None, None, IntV(2))
    /\ last.args.value = IntV(0 - 1)
    /\ last.err = "ok"
    /\ ~last.args.ret

\* C28: TypeRule(expected_type) is constructed iff expected_type is a type
\* or a non-empty tuple of types, and check on a constructed rule never
\* raises.
C28_TypeRuleConstruction ==
    /\ last.op = "TypeRule" =>
         (last.err = "ok" <=>
            \/ last.args.expected_type.kind = "type"
            \/ /\ last.args.expected_type.kind = "tuple"
               /\ last.args.expected_type.elems # <<>>
               /\ \A i \in 1..Len(last.args.expected_type.elems) :
                    IsType(last.args.expected_type.elems[i]))
    /\ last.op = "TypeRule.check" => last.err = "ok"

-----------------------------------------------------------------------------
(* SpecRegister: rules registered on a set, A, that already holds rules *)

InitRegister ==
    \E c \in Candidates(2), withRule \in BOOLEAN :
      \E rels \in RelationRules(c) :
        /\ withRule => c # <<>>
        /\ LET a == BuildSet(<<>>, c, rels, withRule)
               b == BuildSet(a.heap, <<>>, <<>>, FALSE)
           IN  Start(b.heap, a.id, b.id)

\* A.register_rule(name, rule), also on a parameter that holds a rule.
RegisterNextRule(name, rule) ==
    /\ HasKey(heap[A].data, name) => Len(heap[Get(heap[A].data, name)].rules) <= MaxRules
    /\ Called("register_rule", [sid |-> A, name |-> name, rule |-> rule],
              ParameterSet_register_rule(heap, A, name, rule), <<>>)
    /\ UNCHANGED <<params, precedence, validator>>

\* A.register_relation_rule(rule, targets), also on a set that holds one.
RegisterNextRelationRule(rule, targets) ==
    /\ Len(heap[A].relation_rules) <= MaxRel
    /\ Called("register_relation_rule", [sid |-> A, rule |-> rule, targets |-> targets],
              ParameterSet_register_relation_rule(heap, A, rule, targets), <<>>)
    /\ UNCHANGED <<params, precedence, validator>>

NextRegister ==
    \/ \E name \in Names : Remove(name)
    \/ \E name \in Names : RegisterNextRule(name, "r2")
    \/ \E targets \in TargetSpecs : RegisterNextRelationRule("q1", targets)

SpecRegister == InitRegister /\ [][NextRegister]_vars

-----------------------------------------------------------------------------
(* SpecLookup: dotted-path lookup on a set, A, that holds nested sets *)

MaxPath == 3      \* keys of a dotted path

\* ParameterSet.__getattr__(name) from the object obj on, keys being
\* name.split("."): a key of a ParameterSet leads to its entry, and an entry
\* that is a Param ends the lookup with its get(); any other case is the
\* AttributeError of super().__getattr__, raised again by the except clause;
\* keys used up, the object reached is returned.
RECURSIVE GetAttrFrom(_, _, _, _)
GetAttrFrom(h, obj, keys, i) ==
    IF i > Len(keys) THEN Return(h, <<Ref(obj)>>)
    ELSE IF h[obj].kind = "ParameterSet" /\ HasKey(h[obj].data, keys[i])
    THEN IF h[Get(h[obj].data, keys[i])].kind = "Param"
         THEN Return(h, <<Param_get(h, Get(h[obj].data, keys[i]))>>)
         ELSE GetAttrFrom(h, Get(h[obj].data, keys[i]), keys, i + 1)
    ELSE Raise(h, "AttributeError")

ParameterSet_getattr(h, sid, keys) == GetAttrFrom(h, sid, keys, 1)

\* How a nested set gets into a set: outer.add(name, nested), which is also
\* what the constructor does, or outer |= {name: nested}.
LinkModes == {"add", "ior"}
Link(h, sid, name, id, mode) ==
    IF mode = "add" THEN ParameterSet_add(h, sid, name, Ref(id)).heap
    ELSE UserDict_ior(h, sid, name, id).heap

\* The dotted paths looked up: up to MaxPath keys, "z" being no name of any set.
Paths == UNION {[1..m -> Names \cup {"z"}] : m \in 1..MaxPath}

\* B is the innermost set; A holds it under the name n, directly or inside
\* a middle set that is itself under n.
InitLookup ==
    \E ca \in Candidates(1), cb \in Candidates(1) \ {<<>>}, n \in Names :
      \E depth \in {2, 3}, m1 \in LinkModes, m2 \in LinkModes :
        /\ n \notin Range(Keys(ca))
        /\ depth = 2 => m1 = "add"
        /\ LET b == BuildSet(<<>>, cb, <<>>, FALSE)
               a == BuildSet(b.heap, ca, <<>>, FALSE)
               m == BuildSet(a.heap, <<>>, <<>>, FALSE)
           IN  Start(IF depth = 3
                     THEN Link(Link(m.heap, m.id, n, b.id, m1), a.id, n, m.id, m2)
                     ELSE Link(a.heap, a.id, n, b.id, m2),
                     a.id, b.id)

\* v = getattr(A, "k1.k2.k3").
GetAttr(path) ==
    /\ CalledRet("getattr", [sid |-> A, path |-> path],
                 ParameterSet_getattr(heap, A, path))
    /\ UNCHANGED <<params, precedence, validator>>

\* B[name].set(v), on a parameter of the innermost set.
SetInner(name, v) ==
    /\ HasKey(heap[B].data, name)
    /\ Called("set", [sid |-> B, name |-> name, v |-> v],
              Param_set(heap, Get(heap[B].data, name), IntV(v)), <<>>)
    /\ UNCHANGED <<params, precedence, validator>>

NextLookup ==
    \/ \E path \in Paths : GetAttr(path)
    \/ \E name \in Names, v \in Values : SetInner(name, v)

SpecLookup == InitLookup /\ [][NextLookup]_vars

\* The nested set an entry stands for: the entry itself, or the default of
\* the Param that add made of it (0 if the entry is no nested set).
NestedSet(h, e) ==
    IF h[e].kind = "ParameterSet" THEN e
    ELSE IF h[e].kind = "Param" /\ IsRef(h[e].default)
            /\ h[h[e].default.v].kind = "ParameterSet"
    THEN h[e].default.v
    ELSE 0

\* Where a dotted path leads through nested sets: to a Param under the last
\* key ("param"), to a nested set ("set"), past a Param ("beyond"), or to a
\* key that is absent ("absent").
RECURSIVE Resolve(_, _, _, _)
Resolve(h, sid, keys, i) ==
    IF ~HasKey(h[sid].data, keys[i]) THEN [kind |-> "absent", id |-> 0]
    ELSE IF NestedSet(h, Get(h[sid].data, keys[i])) # 0
    THEN IF i = Len(keys)
         THEN [kind |-> "set", id |-> NestedSet(h, Get(h[sid].data, keys[i]))]
         ELSE Resolve(h, NestedSet(h, Get(h[sid].data, keys[i])), keys, i + 1)
    ELSE IF i = Len(keys) THEN [kind |-> "param", id |-> Get(h[sid].data, keys[i])]
    ELSE [kind |-> "beyond", id |-> 0]

\* C24: a dotted path whose prefixes name nested sets and whose last key
\* names a Param returns what that Param's get() returns, not the object; a
\* path with an absent key raises AttributeError.
C24_DottedPathResolves ==
    last.op = "getattr" =>
        /\ Resolve(last.pre, last.args.sid, last.args.path, 1).kind = "param"
             => /\ last.err = "ok"
                /\ res = <<Param_get(last.pre,
                             Resolve(last.pre, last.args.sid, last.args.path, 1).id)>>
        /\ Resolve(last.pre, last.args.sid, last.args.path, 1).kind = "absent"
             => last.err = "AttributeError"

-----------------------------------------------------------------------------
(* ParamAssigner *)

\* ParamAssigner.set: self.params[name].value = value for a name of the set,
\* UnknownParameterError otherwise.
ParamAssigner_set(h, sid, name, pv) ==
    IF HasKey(h[sid].data, name)
    THEN Ok([h EXCEPT ![Get(h[sid].data, name)].value = pv])
    ELSE Raise(h, "UnknownParameterError")

\* (mutant of ParamAssigner_apply_config) every key of the configuration is
\* applied: a key that names no parameter is added to the set.
RECURSIVE ParamAssigner_apply_config_all_keys(_, _, _)
ParamAssigner_apply_config_all_keys(h, sid, config) ==
    IF config = <<>> THEN Ok(h)
    ELSE ParamAssigner_apply_config_all_keys(
             IF HasKey(h[sid].data, Head(config).k)
             THEN [h EXCEPT ![Get(h[sid].data, Head(config).k)].value = Head(config).v]
             ELSE ParameterSet_add(h, sid, Head(config).k, Head(config).v).heap,
             sid, Tail(config))

\* ParamAssigner.apply_config: for every key in
\* self.params.keys() & config.keys(), self.params[key].value = config[key].
RECURSIVE ParamAssigner_apply_config(_, _, _)
ParamAssigner_apply_config(h, sid, config) ==
    IF config = <<>> THEN Ok(h)
    ELSE ParamAssigner_apply_config(
             IF HasKey(h[sid].data, Head(config).k)
             THEN [h EXCEPT ![Get(h[sid].data, Head(config).k)].value = Head(config).v]
             ELSE h,
             sid, Tail(config))

-----------------------------------------------------------------------------
(* SpecAssign: values assigned to the parameters of a set, A, and validate *)

\* The values a client assigns: one that TypeRule(int) refuses, and one
\* that RangeRule(ge=2) refuses.
AssignedValues == {StrV, IntV(1)}

\* The configurations applied: dicts over the keys x and y.
Configs ==
    {<<>>}
      \cup {<<[k |-> n, v |-> pv]>> : n \in Names, pv \in AssignedValues}
      \cup {<<[k |-> "x", v |-> pv], [k |-> "y", v |-> pw]>> :
               pv \in AssignedValues, pw \in AssignedValues}

InitAssign ==
    \E c \in Candidates(2) :
      \E rl \in [1..Len(c) -> RuleLists] :
        LET a == BuildSet(<<>>, c, <<>>, FALSE)
            b == BuildSet(a.heap, <<>>, <<>>, FALSE)
        IN  /\ heap = RegisterAllRules(b.heap, a.id, c, rl, 1)
            /\ params = ParamComposer_init(a.id, b.id).params
            /\ precedence = ParamComposer_init(a.id, b.id).precedence
            /\ res = <<>>
            /\ last = NoCall
            /\ validator = Validator_init(a.id, FALSE)

\* ParamAssigner(A).set(name, value).
AssignerSet(name, pv) ==
    /\ Called("ParamAssigner.set", [sid |-> A, name |-> name, value |-> pv],
              ParamAssigner_set(heap, A, name, pv), <<>>)
    /\ UNCHANGED <<params, precedence, validator>>

\* ParamAssigner(A).apply_config(config).
ApplyConfig(config) ==
    /\ Called("apply_config", [sid |-> A, config |-> config],
              ParamAssigner_apply_config(heap, A, config), <<>>)
    /\ UNCHANGED <<params, precedence, validator>>

NextAssign ==
    \/ \E name \in Names, v \in Values : SetValue(name, v)
    \/ \E name \in Names, pv \in AssignedValues : AssignerSet(name, pv)
    \/ \E config \in Configs : ApplyConfig(config)
    \/ Validate(<<>>, <<>>)

SpecAssign == InitAssign /\ [][NextAssign]_vars


\* C25: apply_config(config) gives every parameter named by a key of config
\* the value config has for it and leaves every other parameter as it was,
\* with the same parameter names (and Param objects) before and after, no
\* parameter being created for a key that names none; ParamAssigner.set on
\* a name absent from the set raises UnknownParameterError and adds nothing.
C25_ApplyConfigMatchingKeys ==
    /\ last.op = "apply_config"
         => /\ last.err = "ok"
            /\ DOMAIN heap = DOMAIN last.pre
            /\ heap[A] = last.pre[A]
            /\ \A i \in 1..Len(heap[A].data) :
                 IF HasKey(last.args.config, heap[A].data[i].k)
                 THEN heap[heap[A].data[i].v] =
                        [last.pre[heap[A].data[i].v] EXCEPT
                           !.value = Get(last.args.config, heap[A].data[i].k)]
                 ELSE heap[heap[A].data[i].v] = last.pre[heap[A].data[i].v]
    /\ (last.op = "ParamAssigner.set" /\ ~HasKey(last.pre[A].data, last.args.name))
         => /\ last.err = "UnknownParameterError"
            /\ heap = last.pre

\* A configuration with a key for x, which A has, and a key for y, which A
\* has not, was applied: x went from the value 2 to the configured str.
C25_Witness ==
    /\ last.op = "apply_config"
    /\ Keys(last.args.config) = <<"x", "y">>
    /\ Keys(heap[A].data) = <<"x">>
    /\ last.pre[Get(heap[A].data, "x")].value = IntV(2)
    /\ heap[Get(heap[A].data, "x")].value = StrV


\* The checks of the last validate call that do not pass on a parameter
\* holding an assigned value.
AssignedViolations ==
    SelectSeq(NotPassed,
              LAMBDA chk : \A i \in 1..Len(chk.targets.names) :
                  last.pre[Get(last.pre[A].data, chk.targets.names[i])].value # None)

\* C22: Param.set, ParamAssigner.set and apply_config store any value on a
\* parameter of the set without raising, rule-violating values included, and
\* change only the value of the parameter, never its default or its rules;
\* a later validate() reports the violation: it returns False and its report
\* has a failed entry.
C22_AssignNeverChecks ==
    /\ (last.op \in {"set", "ParamAssigner.set"} /\ HasKey(last.pre[A].data, last.args.name))
         => /\ last.err = "ok"
            /\ DOMAIN heap = DOMAIN last.pre
            /\ \A id \in DOMAIN heap :
                 heap[id] = IF id = Get(last.pre[A].data, last.args.name)
                            THEN [last.pre[id] EXCEPT
                                    !.value = IF last.op = "set" THEN IntV(last.args.v)
                                              ELSE last.args.value]
                            ELSE last.pre[id]
    /\ last.op = "apply_config"
         => /\ last.err = "ok"
            /\ DOMAIN heap = DOMAIN last.pre
            /\ \A id \in DOMAIN heap :
                 heap[id] = [last.pre[id] EXCEPT !.value = heap[id].value]
    /\ (last.op = "validate" /\ AssignedViolations # <<>>)
         => /\ last.err = "ok"
            /\ res = <<BoolV(FALSE)>>
            /\ \E i \in 1..Len(validator.recorder.report) :
                 validator.recorder.report[i].success # "True"

\* The checks A's validator holds for the parameters as they are, each run
\* on the default of its parameter.
DefaultsSatisfyRules(h, sid) ==
    \A i \in 1..Len(h[sid].data) :
      \A j \in 1..Len(h[h[sid].data[i].v].rules) :
        /\ Rule_check(h[h[sid].data[i].v].rules[j],
                      Call(<<h[h[sid].data[i].v].default>>, <<>>)).err = "ok"
        /\ Rule_check(h[h[sid].data[i].v].rules[j],
                      Call(<<h[h[sid].data[i].v].default>>, <<>>)).ok

\* C21: validate() returns True on a set where no parameter has been
\* assigned a value and the default of every parameter satisfies all the
\* rules of that parameter.
C21_DefaultsValidate ==
    (/\ last.op = "validate"
     /\ \A i \in 1..Len(last.pre[A].data) : last.pre[last.pre[A].data[i].v].value = None
     /\ DefaultsSatisfyRules(last.pre, A))
        => /\ last.err = "ok"
           /\ res = <<BoolV(TRUE)>>

====
